---- MODULE Spec2Model ----
(***************************************************************************)
(* DeepSeekCopyTrader (src/deepseek-copytrader.js): the poll / extract /   *)
(* deduplicate / notify cycle, its retry and backoff, and the persisted    *)
(* set of seen entry_oid values.                                           *)
(*                                                                         *)
(* JavaScript values are tagged records, so that the number 42 and the     *)
(* string "42" stay different values, as they do for Set.has and ===.      *)
(* Strings whose characters the code inspects (model_id) are sequences of  *)
(* one-character strings.                                                  *)
(***************************************************************************)
EXTENDS Integers, Sequences, FiniteSets, TLC

\* ------------------------------------------------------------ constants
POLL_INTERVAL == 15000
ERROR_RETRY_INTERVAL == 45000
maxRetries == 3
retryDelay == 10000

\* ------------------------------------------------------------ bounds
\* accounts in one accountTotals list
MaxAccounts == 2

\* ------------------------------------------------------------ JS values
Num(n) == [t |-> "number", n |-> n, s |-> ""]
Str(s) == [t |-> "string", n |-> 0, s |-> s]
Undefined == [t |-> "undefined", n |-> 0, s |-> ""]
Null == [t |-> "null", n |-> 0, s |-> ""]

\* !x of JavaScript, for the values above
Falsy(x) ==
    \/ x.t \in {"undefined", "null"}
    \/ x.t = "number" /\ x.n = 0
    \/ x.t = "string" /\ x.s = ""

\* x === -1
StrictEqMinusOne(x) == x.t = "number" /\ x.n = -1

\* ------------------------------------------------------------ strings
Upper == <<"A","B","C","D","E","F","G","H","I","J","K","L","M",
           "N","O","P","Q","R","S","T","U","V","W","X","Y","Z">>
Lower == <<"a","b","c","d","e","f","g","h","i","j","k","l","m",
           "n","o","p","q","r","s","t","u","v","w","x","y","z">>

UpperSet == {Upper[i] : i \in DOMAIN Upper}
LowerOf == [c \in UpperSet |-> Lower[CHOOSE i \in DOMAIN Upper : Upper[i] = c]]

LowerChar(c) == IF c \in UpperSet THEN LowerOf[c] ELSE c

toLowerCase(str) == [i \in DOMAIN str |-> LowerChar(str[i])]

includes(str, prefix) ==
    \E k \in 0..(Len(str) - Len(prefix)) :
        SubSeq(str, k + 1, k + Len(prefix)) = prefix

startsWith(str, prefix) ==
    /\ Len(str) >= Len(prefix)
    /\ SubSeq(str, 1, Len(prefix)) = prefix

deepseek == <<"d","e","e","p","s","e","e","k">>
qwen == <<"q","w","e","n">>

\* an optional string field of a payload object
NoStr == [defined |-> FALSE, chars |-> <<>>]
S(chars) == [defined |-> TRUE, chars |-> chars]

\* ------------------------------------------------------------ payloads
\* One position object of a positions map; isNull is a null map entry.
Position(oid, price, lev, qty, time) ==
    [isNull |-> FALSE, entry_oid |-> oid, entry_price |-> price,
     leverage |-> lev, quantity |-> qty, entry_time |-> time]
NullPosition ==
    [isNull |-> TRUE, entry_oid |-> Undefined, entry_price |-> 0,
     leverage |-> 0, quantity |-> "", entry_time |-> 0]

Btc(oid) == [symbol |-> "BTCUSDT", position |-> Position(oid, 50000, 10, "0.1", 1700000000)]
Eth(oid) == [symbol |-> "ETHUSDT", position |-> Position(oid, 3000, 5, "2", 1700000100)]
Sol(oid) == [symbol |-> "SOLUSDT", position |-> Position(oid, 150, 3, "40", 1700000200)]

\* A positions map is the sequence of its entries, in Object.entries order.
NoMap == [defined |-> FALSE, entries |-> <<>>]
Map(entries) == [defined |-> TRUE, entries |-> entries]

\* One element of accountTotals (model_id) or of positions (id).
Account(model_id, id, positions) ==
    [isNull |-> FALSE, model_id |-> model_id, id |-> id, positions |-> positions]
NullAccount ==
    [isNull |-> TRUE, model_id |-> NoStr, id |-> NoStr, positions |-> NoMap]

\* A response body: null, or an object with an accountTotals field (absent,
\* an array, or an object that is no array) and a positions list.
NoList == [defined |-> FALSE, isArray |-> FALSE, items |-> <<>>]
List(items) == [defined |-> TRUE, isArray |-> TRUE, items |-> items]
NotAnArray == [defined |-> TRUE, isArray |-> FALSE, items |-> <<>>]

NullBody == [isNull |-> TRUE, accountTotals |-> NoList, positions |-> NoList]
Body(accountTotals, positions) ==
    [isNull |-> FALSE, accountTotals |-> accountTotals, positions |-> positions]

DeepSeekV3 == <<"D","e","e","p","S","e","e","k","-","V","3">>
deepseek_v3 == <<"d","e","e","p","s","e","e","k","-","v","3">>
qwen_alpha == <<"q","w","e","n","-","a","l","p","h","a">>
llama_x == <<"l","l","a","m","a","-","x">>
my_deepseek == <<"m","y","-","d","e","e","p","s","e","e","k">>
x_qwen == <<"x","q","w","e","n">>
QWEN == <<"Q","W","E","N">>
deep == <<"d","e","e","p">>
qwe == <<"q","w","e">>

SeqsUpTo(pool, n) == UNION {[1..k -> pool] : k \in 0..n}

\* ------------------------------------------------------------ Extractor
\* faulty variant: the prefix may occur anywhere in the identifier
IsTargetModelIncludes(account) ==
    IF account.isNull \/ ~account.model_id.defined \/ account.model_id.chars = <<>>
    THEN FALSE
    ELSE LET modelId == toLowerCase(account.model_id.chars)
         IN  includes(modelId, deepseek) \/ includes(modelId, qwen)
IsTargetModel(account) ==
    IF account.isNull \/ ~account.model_id.defined \/ account.model_id.chars = <<>>
    THEN FALSE
    ELSE LET modelId == toLowerCase(account.model_id.chars)
         IN  startsWith(modelId, deepseek) \/ startsWith(modelId, qwen)

findTargetModelAccounts(data) ==
    IF data.isNull \/ ~data.accountTotals.defined \/ ~data.accountTotals.isArray
    THEN <<>>
    ELSE SelectSeq(data.accountTotals.items, IsTargetModel)

\* pollPositions, no target account found: the log of the available models,
\* data.accountTotals.map((a) => a.model_id), is a TypeError when
\* accountTotals is there and is no array, or holds a null account.
availableModelsThrows(data) ==
    /\ data.accountTotals.defined
    /\ \/ ~data.accountTotals.isArray
       \/ \E i \in DOMAIN data.accountTotals.items : data.accountTotals.items[i].isNull

\* logDetailedData reads position.entry_oid of every entry of every target
\* account's positions map: a null entry is a TypeError.
logDetailedDataThrows(data) ==
    /\ ~data.isNull /\ data.accountTotals.defined /\ data.accountTotals.isArray
    /\ \E i \in DOMAIN data.accountTotals.items :
          LET account == data.accountTotals.items[i]
          IN  /\ IsTargetModel(account)
              /\ account.positions.defined
              /\ \E j \in DOMAIN account.positions.entries :
                    account.positions.entries[j].position.isNull

\* ------------------------------------------------------------ Store
\* The Set of seen entry_oid values, in insertion order.
Has(set, x) == \E i \in DOMAIN set : set[i] = x
\* faulty variant: the entry_oid is never recorded
AddForgets(set, x) == set
\* faulty variant: the set is rebuilt around the new entry_oid
AddReplaces(set, x) == <<x>>
Add(set, x) == IF Has(set, x) THEN set ELSE Append(set, x)

RECURSIVE NewSet(_)
NewSet(array) ==
    IF array = <<>> THEN <<>>
    ELSE Add(NewSet(SubSeq(array, 1, Len(array) - 1)), array[Len(array)])

\* The numbers that occur as entry_oid in the payloads of this model.
Numbers == {-1, 0, 42, 99}

\* JSON text of one array element: a number prints as its digits, a string
\* in quotes, undefined and null as null.
\* faulty variant: every entry_oid is written as a string
StringifyAsString(x) ==
    IF x.t = "number" THEN [quoted |-> TRUE, text |-> ToString(x.n)]
    ELSE [quoted |-> TRUE, text |-> x.s]
StringifyValue(x) ==
    CASE x.t = "number" -> [quoted |-> FALSE, text |-> ToString(x.n)]
      [] x.t = "string" -> [quoted |-> TRUE, text |-> x.s]
      [] OTHER -> [quoted |-> FALSE, text |-> "null"]

JSONstringify(array) == [i \in DOMAIN array |-> StringifyValue(array[i])]

ParseValue(tok) ==
    IF tok.quoted THEN Str(tok.text)
    ELSE IF tok.text = "null" THEN Null
    ELSE Num(CHOOSE n \in Numbers : ToString(n) = tok.text)

JSONparse(text) == [i \in DOMAIN text |-> ParseValue(text[i])]

\* faulty variant: only the entry_oid added last is written
OnlyNewest(set) == <<set[Len(set)]>>
\* const positions = Array.from(this.seenPositions)
Positions(set) == set

NoFile == [kind |-> "ENOENT", text |-> <<>>]
Truncated == [kind |-> "truncated", text |-> <<>>]
JsonFile(text) == [kind |-> "json", text |-> text]

\* ------------------------------------------------------------ Detector
\* faulty variant: the test for -1 is missing
SkipOnlyFalsy(entry_oid) == Falsy(entry_oid)
\* if (!entry_oid || entry_oid === -1) continue;
SkipEntryOid(entry_oid) == Falsy(entry_oid) \/ StrictEqMinusOne(entry_oid)

Done == [kind |-> "done", ai |-> 0, pi |-> 0]
Throws == [kind |-> "throws", ai |-> 0, pi |-> 0]
New(ai, pi) == [kind |-> "new", ai |-> ai, pi |-> pi]

\* The loops of processAccounts from position (ai, pi) on, up to the first
\* await: the next position that is new, the end of the lists, or the
\* TypeError of destructuring a null position.
RECURSIVE Scan(_, _, _, _)
Scan(accts, set, ai, pi) ==
    IF ai > Len(accts) THEN Done
    ELSE LET positions == accts[ai].positions
         IN  IF ~positions.defined \/ pi > Len(positions.entries)
             THEN Scan(accts, set, ai + 1, 1)
             ELSE LET position == positions.entries[pi].position
                  IN  IF position.isNull THEN Throws
                      ELSE IF SkipEntryOid(position.entry_oid)
                      THEN Scan(accts, set, ai, pi + 1)
                      ELSE IF ~Has(set, position.entry_oid)
                      THEN New(ai, pi)
                      ELSE Scan(accts, set, ai, pi + 1)

\* ------------------------------------------------------------ Fetcher
Error(name, code, timeoutInMessage) ==
    [name |-> name, code |-> code, timeoutInMessage |-> timeoutInMessage]
\* what fs.writeFile rejects with
WriteError == Error("Error", "EACCES", FALSE)
NoError == Error("", "", FALSE)
TypeError == Error("TypeError", "", FALSE)
NotifierError == Error("Error", "EXCHANGE", FALSE)

\* What axios.get rejects with: a timeout (ECONNABORTED, "timeout of 15000ms
\* exceeded"), the socket errors, and an HTTP error status.
NetworkErrors ==
    { Error("AxiosError", "ECONNABORTED", TRUE),
      Error("Error", "ETIMEDOUT", FALSE),
      Error("Error", "ECONNRESET", FALSE),
      Error("Error", "ENOTFOUND", FALSE),
      Error("AxiosError", "ERR_BAD_RESPONSE", FALSE) }

isRetryableError(error) ==
    \/ error.code = "ECONNABORTED"
    \/ error.timeoutInMessage
    \/ error.code = "ETIMEDOUT"
    \/ error.code = "ECONNRESET"
    \/ error.code = "ENOTFOUND"

\* faulty variant: one attempt too many
ShouldRetryOnceMore(error, n) == isRetryableError(error) /\ n <= maxRetries
\* faulty variant: every error is retried
ShouldRetryAnyError(error, n) == n < maxRetries
\* if (isRetryableError && attempt < maxRetries) { delay; continue; }
ShouldRetry(error, n) == isRetryableError(error) /\ n < maxRetries

\* ------------------------------------------------------------ Scheduler
\* pollLoop: setTimeout(pollLoop, POLL_INTERVAL) after the try body,
\* setTimeout(pollLoop, ERROR_RETRY_INTERVAL) in the catch.
\* faulty variant: the catch arms the normal interval too
NextIntervalAlwaysPoll(threw) == POLL_INTERVAL
NextInterval(threw) == IF threw THEN ERROR_RETRY_INTERVAL ELSE POLL_INTERVAL

\* ------------------------------------------------------------ inputs
TrackedAccounts ==
    { Account(S(DeepSeekV3), NoStr, Map(<<Btc(Num(42)), Eth(Str("42"))>>)),
      Account(S(qwen_alpha), NoStr, Map(<<Btc(Undefined), Eth(Num(42)), Sol(Num(-1))>>)),
      Account(S(DeepSeekV3), NoStr, Map(<<Btc(Num(0)), Eth(Str("")), Sol(Str("42"))>>)),
      Account(S(qwen_alpha), NoStr, NoMap) }

AccountPool ==
    TrackedAccounts \cup
    { Account(S(llama_x), NoStr, Map(<<Btc(Num(99))>>)),
      Account(S(DeepSeekV3), NoStr,
              Map(<<Btc(Num(42)), [symbol |-> "ETHUSDT", position |-> NullPosition]>>)) }

\* The payload of the positions shape: model entries with id, no accountTotals.
PositionsShape ==
    Body(NoList, List(<<Account(NoStr, S(deepseek_v3), Map(<<Btc(Num(42))>>))>>))

Payloads ==
    {NullBody, PositionsShape, Body(NoList, NoList), Body(NotAnArray, NoList),
     Body(List(<<NullAccount>>), NoList)} \cup
    {Body(List(items), NoList) : items \in SeqsUpTo(AccountPool, MaxAccounts)}

\* Every value an entry_oid takes in Payloads.
EntryOids == {Undefined, Num(-1), Num(0), Num(42), Num(99), Str(""), Str("42")}

AnyPayload == [fixed |-> FALSE, body |-> NullBody]
Fixed(body) == [fixed |-> TRUE, body |-> body]

NoTrade ==
    [symbol |-> "", entryPrice |-> 0, leverage |-> 0, quantity |-> "",
     entryTime |-> 0, entryOid |-> Undefined, side |-> "", modelId |-> <<>>]

\* ------------------------------------------------------------ state
VARIABLES
    seenPositions,  \* this.seenPositions, in insertion order
    isRunning,      \* this.isRunning
    file,           \* seen_positions.json
    pc,             \* where start / pollLoop is suspended
    attempt,        \* fetchPositions: the attempt in flight (0 outside it)
    delays,         \* fetchPositions: retry delays taken by this call
    error,          \* fetchPositions: the error in its catch block
    data,           \* pollPositions: the payload fetchPositions returned
    accounts,       \* pollPositions: targetAccounts
    ai,             \* processAccounts: index of the account in hand
    pi,             \* processAccounts: index of the position in hand
    timers,         \* the pending setTimeout(pollLoop, ...) intervals
    upstream,       \* what the endpoint answers: anything, or one payload
    outcome,        \* history: how the last cycle ended: none, ok, threw
    thrown,         \* history: the error the last cycle threw
    returned,       \* history: fetchPositions returned in this cycle
    fetchThrew,     \* history: attempt and delays when fetchPositions threw
    tradeCount,     \* history: openTrade calls of this run, per entry_oid
    lastTrade,      \* history: the arguments of the latest openTrade call
    cycleTrades,    \* history: openTrade calls of this cycle
    cycleSaves,     \* history: saveSeenPositions calls of this cycle
    cycleStart,     \* history: seenPositions when this cycle began
    cycles,         \* history: the cycle of this run: none, first, second, later
    saved,          \* history: the array of the last successful writeFile
    loaded,         \* history: what loadSeenPositions of this run read
    stopCalled,     \* history: stop() was called in this run
    connected,      \* history: what testConnection resolved to, during the first cycle
    lastWrite,      \* history: how the latest writeFile of this run ended
    failedSaves,    \* history: the entry_oids of this run whose writeFile rejected
    loops           \* the calls of start() on one instance: where each one is

vars ==
    <<seenPositions, isRunning, file, pc, attempt, delays, error, data, accounts,
      ai, pi, timers, upstream, outcome, thrown, returned, fetchThrew, tradeCount,
      lastTrade, cycleTrades, cycleSaves, cycleStart, cycles, saved, loaded, stopCalled, connected, lastWrite, failedSaves, loops>>

\* bound: the calls of start() on one instance
MaxStarts == 3

\* One call of start(): where it, or the pollLoop it began, is suspended,
\* and the interval of the timer it has pending.
Loop(at, interval) == [at |-> at, interval |-> interval]
NoLoops == [k \in 1..MaxStarts |-> Loop("notCalled", 0)]

NotSaved == [valid |-> FALSE, array |-> <<>>]
NotLoaded == [ok |-> FALSE, array |-> <<>>]
NotThrown == [attempt |-> 0, delays |-> 0]

\* new DeepSeekCopyTrader() in a fresh process
Constructed ==
    /\ seenPositions = <<>>
    /\ isRunning = FALSE
    /\ pc = "constructed"
    /\ attempt = 0
    /\ delays = 0
    /\ error = NoError
    /\ data = NullBody
    /\ accounts = <<>>
    /\ ai = 0
    /\ pi = 0
    /\ timers = <<>>
    /\ outcome = "none"
    /\ thrown = NoError
    /\ returned = FALSE
    /\ fetchThrew = NotThrown
    /\ tradeCount = [o \in EntryOids |-> 0]
    /\ lastTrade = NoTrade
    /\ cycleTrades = 0
    /\ cycleSaves = 0
    /\ cycleStart = <<>>
    /\ cycles = "none"
    /\ loaded = NotLoaded
    /\ stopCalled = FALSE
    /\ connected = "untested"
    /\ lastWrite = "none"
    /\ failedSaves = {}
    /\ loops = NoLoops

Init ==
    /\ Constructed
    /\ file = NoFile
    /\ saved = NotSaved
    /\ upstream = AnyPayload

Responses == IF upstream.fixed THEN {upstream.body} ELSE Payloads

\* ------------------------------------------------------------ pollLoop
\* faulty variant: a timer is armed in the try body and once more after it
EndCycleArmsTwice(threw, e) ==
    /\ timers' = timers \o <<NextInterval(threw), NextInterval(threw)>>
    /\ outcome' = IF threw THEN "threw" ELSE "ok"
    /\ thrown' = e
    /\ pc' = "timer"
\* faulty variant: pollLoop has no catch, an error ends the loop
EndCycleUncaught(threw, e) ==
    /\ timers' = IF threw THEN timers ELSE Append(timers, NextInterval(threw))
    /\ outcome' = IF threw THEN "threw" ELSE "ok"
    /\ thrown' = e
    /\ pc' = IF threw THEN "stopped" ELSE "timer"
\* The end of pollLoop's try or catch: one setTimeout.
EndCycle(threw, e) ==
    /\ timers' = Append(timers, NextInterval(threw))
    /\ outcome' = IF threw THEN "threw" ELSE "ok"
    /\ thrown' = e
    /\ pc' = "timer"

\* pollLoop from its first line to the first await in fetchPositions.
BeginPollLoop ==
    IF ~isRunning'
    THEN /\ pc' = "stopped"
         /\ UNCHANGED <<attempt, delays, error, data, accounts, ai, pi, outcome,
                        thrown, returned, fetchThrew, cycleTrades, cycleSaves,
                        cycleStart, cycles>>
    ELSE /\ pc' = "fetch"
         /\ attempt' = 1
         /\ delays' = 0
         /\ error' = NoError
         /\ data' = NullBody
         /\ accounts' = <<>>
         /\ ai' = 0
         /\ pi' = 0
         /\ outcome' = "none"
         /\ thrown' = NoError
         /\ returned' = FALSE
         /\ fetchThrew' = NotThrown
         /\ cycleTrades' = 0
         /\ cycleSaves' = 0
         /\ cycleStart' = seenPositions'
         /\ cycles' = CASE cycles = "none" -> "first"
                         [] cycles = "first" -> "second"
                         [] OTHER -> "later"

\* faulty variant: every new entry_oid of the payload is added first, and
\* one save follows
RECURSIVE AddAllNew(_, _, _, _)
AddAllNew(accts, set, i, j) ==
    LET next == Scan(accts, set, i, j)
    IN  IF next.kind = "new"
        THEN AddAllNew(accts,
                       Add(set, accts[next.ai].positions.entries[next.pi].position.entry_oid),
                       next.ai, next.pi + 1)
        ELSE set
ProcessFromBatched(accts, i, j) ==
    LET next == Scan(accts, seenPositions, i, j)
    IN  CASE next.kind = "new" ->
               /\ seenPositions' = AddAllNew(accts, seenPositions, i, j)
               /\ ai' = next.ai
               /\ pi' = next.pi
               /\ cycleSaves' = cycleSaves + 1
               /\ pc' = "writeFile"
               /\ UNCHANGED <<timers, outcome, thrown>>
          [] next.kind = "done" ->
               /\ EndCycle(FALSE, NoError)
               /\ UNCHANGED <<seenPositions, ai, pi, cycleSaves>>
          [] OTHER ->
               /\ EndCycle(TRUE, TypeError)
               /\ UNCHANGED <<seenPositions, ai, pi, cycleSaves>>

\* processAccounts from position (i, j) on: up to the writeFile of the next
\* new entry_oid, or to the end of the cycle.
ProcessFrom(accts, i, j) ==
    LET next == Scan(accts, seenPositions, i, j)
    IN  CASE next.kind = "new" ->
               LET entry_oid == accts[next.ai].positions.entries[next.pi].position.entry_oid
               IN  /\ seenPositions' = Add(seenPositions, entry_oid)
                   /\ ai' = next.ai
                   /\ pi' = next.pi
                   /\ cycleSaves' = cycleSaves + 1
                   /\ pc' = "writeFile"
                   /\ UNCHANGED <<timers, outcome, thrown>>
          [] next.kind = "done" ->
               /\ EndCycle(FALSE, NoError)
               /\ UNCHANGED <<seenPositions, ai, pi, cycleSaves>>
          [] OTHER ->
               /\ EndCycle(TRUE, TypeError)
               /\ UNCHANGED <<seenPositions, ai, pi, cycleSaves>>

\* ------------------------------------------------------------ start
\* start() up to await this.testConnection()
Start ==
    /\ pc = "constructed"
    /\ pc' = "testConnection"
    /\ UNCHANGED <<seenPositions, isRunning, file, attempt, delays, error, data,
                   accounts, ai, pi, timers, upstream, outcome, thrown, returned,
                   fetchThrew, tradeCount, lastTrade, cycleTrades, cycleSaves,
                   cycleStart, cycles, saved, loaded, stopCalled, connected, lastWrite, failedSaves>>
    /\ UNCHANGED loops

\* faulty variant: start() returns when the check failed
AfterTestConnectionChecked(ok) == pc' = IF ok THEN "readFile" ELSE "stopped"
\* What start() does with the value testConnection resolved to: nothing.
AfterTestConnection(ok) == pc' = "readFile"

\* testConnection: axios.head resolves (true) or rejects (caught, false).
TestConnection ==
    /\ pc = "testConnection"
    /\ \E ok \in BOOLEAN :
          /\ connected' = IF ok THEN "ok" ELSE "failed"
          /\ AfterTestConnection(ok)
    /\ UNCHANGED <<seenPositions, isRunning, file, attempt, delays, error, data,
                   accounts, ai, pi, timers, upstream, outcome, thrown, returned,
                   fetchThrew, tradeCount, lastTrade, cycleTrades, cycleSaves,
                   cycleStart, cycles, saved, loaded, stopCalled, lastWrite,
                   failedSaves>>
    /\ UNCHANGED loops

\* loadSeenPositions when readFile and JSON.parse succeed, then the rest of
\* start(): isRunning = true and the first pollLoop().
LoadSeenPositions ==
    /\ pc = "readFile"
    /\ file.kind = "json"
    /\ seenPositions' = NewSet(JSONparse(file.text))
    /\ loaded' = [ok |-> TRUE, array |-> seenPositions']
    /\ isRunning' = TRUE
    /\ BeginPollLoop
    /\ UNCHANGED <<file, timers, upstream, tradeCount, lastTrade, saved, stopCalled,
                   connected, lastWrite, failedSaves>>
    /\ UNCHANGED loops

\* faulty variant: the catch of loadSeenPositions rethrows, start() rejects
LoadSeenPositionsRethrows ==
    /\ pc = "readFile"
    /\ pc' = "stopped"
    /\ UNCHANGED <<seenPositions, isRunning, file, attempt, delays, error, data,
                   accounts, ai, pi, timers, upstream, outcome, thrown, returned,
                   fetchThrew, tradeCount, lastTrade, cycleTrades, cycleSaves,
                   cycleStart, cycles, saved, loaded, stopCalled, connected,
                   lastWrite, failedSaves>>
    /\ UNCHANGED loops

\* loadSeenPositions when readFile rejects (ENOENT, or another error on a
\* file that is there) or JSON.parse throws on a truncated file.
LoadSeenPositionsFails ==
    /\ pc = "readFile"
    /\ seenPositions' = <<>>
    /\ loaded' = NotLoaded
    /\ isRunning' = TRUE
    /\ BeginPollLoop
    /\ UNCHANGED <<file, timers, upstream, tradeCount, lastTrade, saved, stopCalled,
                   connected, lastWrite, failedSaves>>
    /\ UNCHANGED loops

\* ------------------------------------------------------------ fetchPositions
\* The catch block of fetchPositions for an error `e` of attempt `attempt`:
\* the delay before the next attempt, or throw e, which pollPositions
\* rethrows to pollLoop.
FetchCatch(e) ==
    IF ShouldRetry(e, attempt)
    THEN /\ pc' = "retryDelay"
         /\ error' = e
         /\ delays' = delays + 1
         /\ UNCHANGED <<attempt, fetchThrew, timers, outcome, thrown>>
    ELSE /\ EndCycle(TRUE, e)
         /\ fetchThrew' = [attempt |-> attempt, delays |-> delays]
         /\ attempt' = 0
         /\ delays' = 0
         /\ error' = NoError

\* faulty variant: the seen set is saved when the fetch fails
FetchFailsSaves ==
    /\ pc = "fetch"
    /\ \E e \in NetworkErrors : FetchCatch(e)
    /\ file' = JsonFile(JSONstringify(Positions(seenPositions)))
    /\ saved' = [valid |-> TRUE, array |-> seenPositions]
    /\ UNCHANGED <<seenPositions, isRunning, data, accounts, ai, pi,
                   upstream, returned, tradeCount, lastTrade, cycleTrades,
                   cycleSaves, cycleStart, cycles, loaded, stopCalled, connected,
                   lastWrite, failedSaves>>
    /\ UNCHANGED loops

\* axios.get rejects.
FetchFails ==
    /\ pc = "fetch"
    /\ \E e \in NetworkErrors : FetchCatch(e)
    /\ UNCHANGED <<seenPositions, isRunning, file, data, accounts, ai, pi,
                   upstream, returned, tradeCount, lastTrade, cycleTrades,
                   cycleSaves, cycleStart, cycles, saved, loaded, stopCalled, connected, lastWrite, failedSaves>>
    /\ UNCHANGED loops

\* axios.get resolves with a body that the logging of fetchPositions cannot
\* read (null, or a null position of a target account): a TypeError inside
\* the try block.
FetchMalformed ==
    /\ pc = "fetch"
    /\ \E body \in Responses :
          /\ body.isNull \/ logDetailedDataThrows(body)
          /\ FetchCatch(TypeError)
    /\ UNCHANGED <<seenPositions, isRunning, file, data, accounts, ai, pi,
                   upstream, returned, tradeCount, lastTrade, cycleTrades,
                   cycleSaves, cycleStart, cycles, saved, loaded, stopCalled, connected, lastWrite, failedSaves>>
    /\ UNCHANGED loops

\* axios.get resolves and fetchPositions returns the body; pollPositions
\* goes on to findTargetModelAccounts and into processAccounts.
FetchReturns ==
    /\ pc = "fetch"
    /\ \E body \in Responses :
          /\ ~(body.isNull \/ logDetailedDataThrows(body))
          /\ data' = body
          /\ returned' = TRUE
          /\ accounts' = findTargetModelAccounts(body)
          /\ IF accounts' = <<>>
             THEN /\ IF availableModelsThrows(body)
                     THEN EndCycle(TRUE, TypeError)
                     ELSE EndCycle(FALSE, NoError)
                  /\ UNCHANGED <<seenPositions, ai, pi, cycleSaves>>
             ELSE ProcessFrom(accounts', 1, 1)
    /\ attempt' = 0
    /\ delays' = 0
    /\ error' = NoError
    /\ UNCHANGED <<isRunning, file, upstream, fetchThrew, tradeCount, lastTrade,
                   cycleTrades, cycleStart, cycles, saved, loaded, stopCalled, connected, lastWrite, failedSaves>>
    /\ UNCHANGED loops

\* The retry delay of fetchPositions elapses: the next attempt.
RetryDelayElapses ==
    /\ pc = "retryDelay"
    /\ attempt' = attempt + 1
    /\ error' = NoError
    /\ pc' = "fetch"
    /\ UNCHANGED <<seenPositions, isRunning, file, delays, data, accounts, ai,
                   pi, timers, upstream, outcome, thrown, returned, fetchThrew,
                   tradeCount, lastTrade, cycleTrades, cycleSaves, cycleStart,
                   cycles, saved, loaded, stopCalled, connected, lastWrite, failedSaves>>
    /\ UNCHANGED loops

\* ------------------------------------------------------------ processAccounts
\* After await this.saveSeenPositions(): the call of openTrade.
CallOpenTrade ==
    LET account == accounts[ai]
        entry == account.positions.entries[pi]
        position == entry.position
    IN  /\ lastTrade' =
              [symbol |-> entry.symbol, entryPrice |-> position.entry_price,
               leverage |-> position.leverage, quantity |-> position.quantity,
               entryTime |-> position.entry_time, entryOid |-> position.entry_oid,
               side |-> "long", modelId |-> account.model_id.chars]
        /\ tradeCount' =
              [tradeCount EXCEPT ![position.entry_oid] = tradeCount[position.entry_oid] + 1]
        /\ cycleTrades' = cycleTrades + 1
        /\ pc' = "openTrade"

\* saveSeenPositions: writeFile resolves.
SaveSeenPositions ==
    /\ pc = "writeFile"
    /\ file' = JsonFile(JSONstringify(Positions(seenPositions)))
    /\ saved' = [valid |-> TRUE, array |-> seenPositions]
    /\ lastWrite' = "ok"
    /\ CallOpenTrade
    /\ UNCHANGED <<seenPositions, isRunning, attempt, delays, error, data, accounts,
                   ai, pi, timers, upstream, outcome, thrown, returned, fetchThrew,
                   cycleSaves, cycleStart, cycles, loaded, stopCalled, connected,
                   failedSaves>>
    /\ UNCHANGED loops

\* faulty variant: the catch of saveSeenPositions rethrows
SaveSeenPositionsRethrows ==
    /\ pc = "writeFile"
    /\ lastWrite' = "failed"
    /\ failedSaves' = failedSaves \cup {accounts[ai].positions.entries[pi].position.entry_oid}
    /\ EndCycle(TRUE, WriteError)
    /\ UNCHANGED <<seenPositions, isRunning, file, attempt, delays, error, data,
                   accounts, ai, pi, upstream, returned, fetchThrew, tradeCount,
                   lastTrade, cycleTrades, cycleSaves, cycleStart, cycles, saved,
                   loaded, stopCalled, connected>>
    /\ UNCHANGED loops

\* saveSeenPositions: writeFile rejects and the catch swallows it. The file
\* is as it was (the open failed) or is left truncated (the write failed).
SaveSeenPositionsFails ==
    /\ pc = "writeFile"
    /\ \/ UNCHANGED <<file, saved>>
       \/ file' = Truncated /\ saved' = NotSaved
    /\ lastWrite' = "failed"
    /\ failedSaves' = failedSaves \cup {accounts[ai].positions.entries[pi].position.entry_oid}
    /\ CallOpenTrade
    /\ UNCHANGED <<seenPositions, isRunning, attempt, delays, error, data, accounts,
                   ai, pi, timers, upstream, outcome, thrown, returned, fetchThrew,
                   cycleSaves, cycleStart, cycles, loaded, stopCalled, connected>>
    /\ UNCHANGED loops

\* openTrade resolves: the loops go on with the next position.
OpenTradeReturns ==
    /\ pc = "openTrade"
    /\ ProcessFrom(accounts, ai, pi + 1)
    /\ UNCHANGED <<isRunning, file, attempt, delays, error, data, accounts, upstream,
                   returned, fetchThrew, tradeCount, lastTrade, cycleTrades,
                   cycleStart, cycles, saved, loaded, stopCalled, connected, lastWrite, failedSaves>>
    /\ UNCHANGED loops

\* faulty variant: the abort marks the rest of the payload as seen
OpenTradeThrowsMarksRest ==
    /\ pc = "openTrade"
    /\ EndCycle(TRUE, NotifierError)
    /\ seenPositions' = AddAllNew(accounts, seenPositions, ai, pi + 1)
    /\ UNCHANGED <<isRunning, file, attempt, delays, error, data,
                   accounts, ai, pi, upstream, returned, fetchThrew, tradeCount,
                   lastTrade, cycleTrades, cycleSaves, cycleStart, cycles, saved,
                   loaded, stopCalled, connected, lastWrite, failedSaves>>
    /\ UNCHANGED loops

\* openTrade, the placeholder for the exchange call, rejects.
OpenTradeThrows ==
    /\ pc = "openTrade"
    /\ EndCycle(TRUE, NotifierError)
    /\ UNCHANGED <<seenPositions, isRunning, file, attempt, delays, error, data,
                   accounts, ai, pi, upstream, returned, fetchThrew, tradeCount,
                   lastTrade, cycleTrades, cycleSaves, cycleStart, cycles, saved,
                   loaded, stopCalled, connected, lastWrite, failedSaves>>
    /\ UNCHANGED loops

\* ------------------------------------------------------------ timer, stop
\* A pending timer fires: pollLoop runs.
TimerFires ==
    /\ timers # <<>>
    /\ timers' = Tail(timers)
    /\ connected' = "untested"
    /\ UNCHANGED <<isRunning, seenPositions>>
    /\ BeginPollLoop
    /\ UNCHANGED <<file, upstream, tradeCount, lastTrade, saved, loaded, stopCalled,
                   lastWrite, failedSaves>>
    /\ UNCHANGED loops

\* stop(), from a caller that holds the trader: any time after start() was
\* called, once per run.
Stop ==
    /\ pc # "constructed"
    /\ ~stopCalled
    /\ isRunning' = FALSE
    /\ stopCalled' = TRUE
    /\ UNCHANGED <<seenPositions, file, pc, attempt, delays, error, data, accounts,
                   ai, pi, timers, upstream, outcome, thrown, returned, fetchThrew,
                   tradeCount, lastTrade, cycleTrades, cycleSaves, cycleStart,
                   cycles, saved, loaded, connected, lastWrite, failedSaves>>
    /\ UNCHANGED loops

\* The process ends (process.exit in main's signal handlers) and a new one
\* constructs a new trader; only the file outlives it.
Restart ==
    /\ pc # "constructed"
    /\ seenPositions' = <<>>
    /\ isRunning' = FALSE
    /\ pc' = "constructed"
    /\ attempt' = 0
    /\ delays' = 0
    /\ error' = NoError
    /\ data' = NullBody
    /\ accounts' = <<>>
    /\ ai' = 0
    /\ pi' = 0
    /\ timers' = <<>>
    /\ outcome' = "none"
    /\ thrown' = NoError
    /\ returned' = FALSE
    /\ fetchThrew' = NotThrown
    /\ tradeCount' = [o \in EntryOids |-> 0]
    /\ lastTrade' = NoTrade
    /\ cycleTrades' = 0
    /\ cycleSaves' = 0
    /\ cycleStart' = <<>>
    /\ cycles' = "none"
    /\ loaded' = NotLoaded
    /\ stopCalled' = FALSE
    /\ connected' = "untested"
    /\ lastWrite' = "none"
    /\ failedSaves' = {}
    /\ UNCHANGED <<file, upstream, saved, loops>>

Next ==
    \/ Start
    \/ TestConnection
    \/ LoadSeenPositions
    \/ LoadSeenPositionsFails
    \/ FetchFails
    \/ FetchMalformed
    \/ FetchReturns
    \/ RetryDelayElapses
    \/ SaveSeenPositions
    \/ SaveSeenPositionsFails
    \/ OpenTradeReturns
    \/ OpenTradeThrows
    \/ TimerFires
    \/ Stop
    \/ Restart

Spec == Init /\ [][Next]_vars

\* ------------------------------------------------------------ replay
\* The endpoint answers every fetch with one and the same payload, no call
\* fails but the writeFile of saveSeenPositions, and the run began with no
\* seen_positions.json: the state is that of start() at its first fetch.
InitReplay ==
    /\ seenPositions = <<>>
    /\ isRunning = TRUE
    /\ file = NoFile
    /\ pc = "fetch"
    /\ attempt = 1
    /\ delays = 0
    /\ error = NoError
    /\ data = NullBody
    /\ accounts = <<>>
    /\ ai = 0
    /\ pi = 0
    /\ timers = <<>>
    /\ upstream \in {Fixed(body) : body \in Payloads}
    /\ outcome = "none"
    /\ thrown = NoError
    /\ returned = FALSE
    /\ fetchThrew = NotThrown
    /\ tradeCount = [o \in EntryOids |-> 0]
    /\ lastTrade = NoTrade
    /\ cycleTrades = 0
    /\ cycleSaves = 0
    /\ cycleStart = <<>>
    /\ cycles = "first"
    /\ saved = NotSaved
    /\ loaded = NotLoaded
    /\ stopCalled = FALSE
    /\ connected = "untested"
    /\ lastWrite = "none"
    /\ failedSaves = {}
    /\ loops = NoLoops

NextReplay ==
    \/ FetchReturns
    \/ SaveSeenPositions
    \/ SaveSeenPositionsFails
    \/ OpenTradeReturns
    \/ TimerFires

SpecReplay == InitReplay /\ [][NextReplay]_vars

\* ------------------------------------------------------------ abort
\* The replay, with a notifier that may reject: every fetch returns the one
\* payload, and a cycle ends early when openTrade throws.
InitAbort == InitReplay

NextAbort ==
    \/ FetchReturns
    \/ SaveSeenPositions
    \/ SaveSeenPositionsFails
    \/ OpenTradeReturns
    \/ OpenTradeThrows
    \/ TimerFires

SpecAbort == InitAbort /\ [][NextAbort]_vars

\* ------------------------------------------------------------ running
\* A trader that is started and never stopped, over a seen_positions.json
\* that is missing, unreadable or holds one entry_oid; every timer that is
\* armed fires.
InitRunning ==
    /\ Constructed
    /\ \E f \in {NoFile, Truncated, JsonFile(JSONstringify(<<Num(42)>>))} :
          /\ file = f
          /\ saved = IF f.kind = "json" THEN [valid |-> TRUE, array |-> <<Num(42)>>]
                                        ELSE NotSaved
    /\ upstream = AnyPayload

NextRunning ==
    \/ Start
    \/ TestConnection
    \/ LoadSeenPositions
    \/ LoadSeenPositionsFails
    \/ FetchFails
    \/ FetchMalformed
    \/ FetchReturns
    \/ RetryDelayElapses
    \/ SaveSeenPositions
    \/ SaveSeenPositionsFails
    \/ OpenTradeReturns
    \/ OpenTradeThrows
    \/ TimerFires

SpecRunning == InitRunning /\ [][NextRunning]_vars /\ WF_vars(TimerFires)

\* ------------------------------------------------------------ start, stop
\* start() and stop() called in any order on one instance. Each call of
\* start() runs its own testConnection, loadSeenPositions and pollLoop; a
\* poll cycle is here the one await of pollLoop, which settles either way
\* (what the cycle does in between is the subject of Spec).
RECURSIVE RemoveOne(_, _)
RemoveOne(seq, x) ==
    IF seq = <<>> THEN <<>>
    ELSE IF Head(seq) = x THEN Tail(seq)
    ELSE <<Head(seq)>> \o RemoveOne(Tail(seq), x)

cycleState ==
    <<pc, attempt, delays, error, data, accounts, ai, pi, upstream, outcome, thrown,
      returned, fetchThrew, tradeCount, lastTrade, cycleTrades, cycleSaves,
      cycleStart, cycles, saved, loaded, stopCalled, connected, lastWrite,
      failedSaves>>

InitStartStop == Init

\* start() is called, up to await this.testConnection()
start(k) ==
    /\ loops[k].at = "notCalled"
    /\ \A j \in 1..(k - 1) : loops[j].at # "notCalled"
    /\ loops' = [loops EXCEPT ![k] = Loop("testConnection", 0)]
    /\ UNCHANGED <<seenPositions, isRunning, file, timers, cycleState>>

\* testConnection settles, up to await this.loadSeenPositions()
testConnection(k) ==
    /\ loops[k].at = "testConnection"
    /\ loops' = [loops EXCEPT ![k] = Loop("readFile", 0)]
    /\ UNCHANGED <<seenPositions, isRunning, file, timers, cycleState>>

\* loadSeenPositions assigns a new Set, start() sets isRunning and calls
\* pollLoop(), which passes its test of the flag and awaits pollPositions.
loadSeenPositions(k) ==
    /\ loops[k].at = "readFile"
    /\ seenPositions' = IF file.kind = "json" THEN NewSet(JSONparse(file.text)) ELSE <<>>
    /\ isRunning' = TRUE
    /\ loops' = [loops EXCEPT ![k] = Loop("pollPositions", 0)]
    /\ UNCHANGED <<file, timers, cycleState>>

\* await this.pollPositions() settles: pollLoop arms its timer.
pollPositions(k) ==
    /\ loops[k].at = "pollPositions"
    /\ \E threw \in BOOLEAN :
          /\ timers' = Append(timers, NextInterval(threw))
          /\ loops' = [loops EXCEPT ![k] = Loop("timer", NextInterval(threw))]
    /\ UNCHANGED <<seenPositions, isRunning, file, cycleState>>

\* The timer fires: pollLoop returns when the flag is down, and awaits
\* pollPositions otherwise.
pollLoop(k) ==
    /\ loops[k].at = "timer"
    /\ timers' = RemoveOne(timers, loops[k].interval)
    /\ loops' = [loops EXCEPT ![k] =
                     IF isRunning THEN Loop("pollPositions", 0) ELSE Loop("returned", 0)]
    /\ UNCHANGED <<seenPositions, isRunning, file, cycleState>>

\* stop()
stop ==
    /\ isRunning
    /\ isRunning' = FALSE
    /\ UNCHANGED <<seenPositions, file, timers, loops, cycleState>>

NextStartStop ==
    \/ \E k \in 1..MaxStarts : start(k)
    \/ \E k \in 1..MaxStarts : testConnection(k)
    \/ \E k \in 1..MaxStarts : loadSeenPositions(k)
    \/ \E k \in 1..MaxStarts : pollPositions(k)
    \/ \E k \in 1..MaxStarts : pollLoop(k)
    \/ stop

SpecStartStop == InitStartStop /\ [][NextStartStop]_vars

\* ------------------------------------------------------------ filter
FilterAccounts ==
    {NullAccount} \cup
    {Account(id, NoStr, NoMap) :
        id \in {NoStr, S(<<>>), S(DeepSeekV3), S(deepseek_v3), S(qwen_alpha), S(QWEN),
                S(llama_x), S(my_deepseek), S(x_qwen), S(deep), S(qwe)}}

\* findTargetModelAccounts applied to one accountTotals list.
InitFilter ==
    /\ seenPositions = <<>>
    /\ isRunning = FALSE
    /\ file = NoFile
    /\ pc = "findTargetModelAccounts"
    /\ attempt = 0
    /\ delays = 0
    /\ error = NoError
    /\ data \in {Body(List(items), NoList) : items \in SeqsUpTo(FilterAccounts, MaxAccounts)}
    /\ accounts = <<>>
    /\ ai = 0
    /\ pi = 0
    /\ timers = <<>>
    /\ upstream = AnyPayload
    /\ outcome = "none"
    /\ thrown = NoError
    /\ returned = FALSE
    /\ fetchThrew = NotThrown
    /\ tradeCount = [o \in EntryOids |-> 0]
    /\ lastTrade = NoTrade
    /\ cycleTrades = 0
    /\ cycleSaves = 0
    /\ cycleStart = <<>>
    /\ cycles = "none"
    /\ saved = NotSaved
    /\ loaded = NotLoaded
    /\ stopCalled = FALSE
    /\ connected = "untested"
    /\ lastWrite = "none"
    /\ failedSaves = {}
    /\ loops = NoLoops

FindTargetModelAccounts ==
    /\ pc = "findTargetModelAccounts"
    /\ accounts' = findTargetModelAccounts(data)
    /\ pc' = "found"
    /\ UNCHANGED <<seenPositions, isRunning, file, attempt, delays, error, data, ai, pi,
                   timers, upstream, outcome, thrown, returned, fetchThrew, tradeCount,
                   lastTrade, cycleTrades, cycleSaves, cycleStart, cycles, saved, loaded, stopCalled, connected, lastWrite, failedSaves>>
    /\ UNCHANGED loops

NextFilter == FindTargetModelAccounts

SpecFilter == InitFilter /\ [][NextFilter]_vars

\* ============================================================ claims
\* The sentinel of the data model: entry_oid absent, or -1.
Sentinel(entry_oid) == entry_oid = Undefined \/ entry_oid = Num(-1)

\* The positions of the target accounts of the cycle in hand.
CyclePositions ==
    {<<i, j>> \in (DOMAIN accounts) \X (1..3) :
        accounts[i].positions.defined /\ j \in DOMAIN accounts[i].positions.entries}
EntryAt(ij) == accounts[ij[1]].positions.entries[ij[2]]

CycleDoneOk == pc = "timer" /\ outcome = "ok" /\ returned

\* C1: within one process run openTrade is invoked at most once for any
\* entry_oid, whatever symbol or account the entry_oid appears under.
C1_AtMostOncePerEntryOid == \A o \in EntryOids : tradeCount[o] <= 1

\* A later cycle met entry_oid 42, notified before, under another symbol of
\* another account and notified nothing.
C1_Witness ==
    /\ CycleDoneOk
    /\ cycles # "first"
    /\ cycleTrades = 0
    /\ tradeCount[Num(42)] = 1
    /\ \E ij \in CyclePositions :
          /\ EntryAt(ij).position.entry_oid = Num(42)
          /\ EntryAt(ij).symbol = "ETHUSDT"
          /\ accounts[ij[1]].model_id.chars = qwen_alpha
    /\ ~\E ij \in CyclePositions :
          /\ EntryAt(ij).position.entry_oid = Num(42)
          /\ EntryAt(ij).symbol = "BTCUSDT"

\* C3: the seen set never holds the sentinel, and neither saveSeenPositions
\* nor openTrade is called for a position whose entry_oid is the sentinel.
C3_SentinelNeverRecorded ==
    /\ \A i \in DOMAIN seenPositions : ~Sentinel(seenPositions[i])
    /\ \A o \in EntryOids : Sentinel(o) => tradeCount[o] = 0
    /\ pc \in {"writeFile", "openTrade"} =>
          ~Sentinel(accounts[ai].positions.entries[pi].position.entry_oid)
    /\ cycleSaves <= Cardinality({ij \in CyclePositions :
                                    ~Sentinel(EntryAt(ij).position.entry_oid)})

\* A cycle ran to its end over positions with entry_oid absent and -1.
C3_Witness ==
    /\ CycleDoneOk
    /\ \E ij \in CyclePositions : EntryAt(ij).position.entry_oid = Undefined
    /\ \E ij \in CyclePositions : EntryAt(ij).position.entry_oid = Num(-1)

\* C4 (as claimed): when processAccounts has run over the target accounts,
\* every position whose entry_oid is not the sentinel is in the seen set,
\* and at the call of openTrade the arguments are those of the position.
C4_EveryOtherEntryOidRecorded ==
    /\ CycleDoneOk =>
          \A ij \in CyclePositions :
              \/ Sentinel(EntryAt(ij).position.entry_oid)
              \/ Has(seenPositions, EntryAt(ij).position.entry_oid)
    /\ pc = "openTrade" =>
          LET entry == accounts[ai].positions.entries[pi]
          IN  /\ Has(seenPositions, entry.position.entry_oid)
              /\ lastTrade.symbol = entry.symbol
              /\ lastTrade.entryPrice = entry.position.entry_price
              /\ lastTrade.leverage = entry.position.leverage
              /\ lastTrade.quantity = entry.position.quantity
              /\ lastTrade.entryTime = entry.position.entry_time
              /\ lastTrade.entryOid = entry.position.entry_oid
              /\ lastTrade.modelId = accounts[ai].model_id.chars

\* The retryable classes: request timeout or abort, connection reset,
\* connection timed out, host not found.
RetryableClass(e) == e.code \in {"ECONNABORTED", "ECONNRESET", "ETIMEDOUT", "ENOTFOUND"}

\* C8: one call of fetchPositions makes at most 3 attempts; a third
\* retryable failure propagates after exactly two delays, and a third
\* attempt that succeeds returns its payload.
C8_RetryBound ==
    /\ [](/\ attempt <= maxRetries
          /\ pc = "fetch" => delays = attempt - 1
          /\ pc = "retryDelay" => attempt < maxRetries /\ delays = attempt
          /\ (fetchThrew.attempt > 0 /\ RetryableClass(thrown)) =>
                /\ fetchThrew.attempt = maxRetries
                /\ fetchThrew.delays = maxRetries - 1
                /\ outcome = "threw")
    /\ [][(pc = "fetch" /\ attempt = maxRetries) =>
             /\ pc' # "retryDelay"
             /\ delays' \in {delays, 0}
             /\ (returned' /\ ~returned) => (data' \in Payloads /\ fetchThrew' = NotThrown)]_vars

\* Three retryable failures in a row: the third one propagated.
C8_Witness ==
    /\ pc = "timer"
    /\ fetchThrew = [attempt |-> 3, delays |-> 2]
    /\ thrown.code = "ECONNRESET"

\* C9: an error outside the retryable classes propagates on the attempt
\* where it occurs: no delay follows it and no further attempt.
C9_NonRetryablePropagates ==
    /\ pc = "retryDelay" => RetryableClass(error)
    /\ (fetchThrew.attempt > 0 /\ ~RetryableClass(thrown)) =>
          /\ pc \in {"timer", "stopped"}
          /\ outcome = "threw"
          /\ thrown \in {TypeError} \cup NetworkErrors
          /\ fetchThrew.delays = fetchThrew.attempt - 1

\* An HTTP error status on the first attempt, two attempts left.
C9_Witness ==
    /\ pc = "timer"
    /\ fetchThrew = [attempt |-> 1, delays |-> 0]
    /\ thrown.code = "ERR_BAD_RESPONSE"

\* C10: a cycle that throws arms ERROR_RETRY_INTERVAL, the longer one, a
\* cycle that ends without error arms POLL_INTERVAL, and one timer is armed
\* per completed cycle.
C10_BackoffSelection ==
    /\ ERROR_RETRY_INTERVAL > POLL_INTERVAL
    /\ pc = "timer" =>
          /\ outcome \in {"ok", "threw"}
          /\ outcome = "threw" => timers = <<ERROR_RETRY_INTERVAL>>
          /\ outcome = "ok" => timers = <<POLL_INTERVAL>>
    /\ pc # "timer" => timers = <<>>

\* The payload held no tracked account: the normal interval is armed.
C10_Witness ==
    /\ pc = "timer"
    /\ outcome = "ok"
    /\ returned
    /\ accounts = <<>>
    /\ data.accountTotals.items # <<>>
    /\ timers = <<POLL_INTERVAL>>

\* C2 (as claimed): from an empty seen set, two cycles fed the same payload
\* call openTrade exactly once for each entry_oid, other than the sentinel,
\* of a tracked account's positions, and the second cycle calls it for none.
C2_ReplayNotifiesEachOnce ==
    (upstream.fixed /\ cycles = "second" /\ CycleDoneOk) =>
        /\ cycleTrades = 0
        /\ \A ij \in CyclePositions :
              ~Sentinel(EntryAt(ij).position.entry_oid) =>
                  tradeCount[EntryAt(ij).position.entry_oid] = 1
        /\ \A o \in EntryOids :
              tradeCount[o] > 0 =>
                  \E ij \in CyclePositions : EntryAt(ij).position.entry_oid = o

\* C5 (as claimed): the payload of the positions shape, with model
\* deepseek-v3 holding BTCUSDT with entry_oid 42, yields one notification
\* in the first cycle and none in the second.
C5_PositionsShapeNotified ==
    (upstream = Fixed(PositionsShape) /\ pc = "timer") =>
        /\ cycles = "first" =>
              /\ cycleTrades = 1
              /\ lastTrade.symbol = "BTCUSDT"
              /\ lastTrade.entryOid = Num(42)
              /\ lastTrade.entryPrice = 50000
              /\ lastTrade.leverage = 10
              /\ lastTrade.quantity = "0.1"
        /\ cycles = "second" => cycleTrades = 0

\* An identifier starts, whatever the case of its letters, with a prefix.
StartsWithIgnoringCase(chars, prefix) ==
    /\ Len(chars) >= Len(prefix)
    /\ \A k \in DOMAIN prefix :
          \E i \in DOMAIN Lower : Lower[i] = prefix[k] /\ chars[k] \in {Lower[i], Upper[i]}

Tracked(account) ==
    /\ ~account.isNull
    /\ account.model_id.defined
    /\ \/ StartsWithIgnoringCase(account.model_id.chars, deepseek)
       \/ StartsWithIgnoringCase(account.model_id.chars, qwen)

IdsOf(list) == {list[i].model_id : i \in {j \in DOMAIN list : ~list[j].isNull}}

\* C6: findTargetModelAccounts returns exactly the accounts whose identifier
\* starts, compared case-insensitively, with deepseek or qwen, in their
\* order: qwen-alpha and DeepSeek-V3 are selected; llama-x is not, nor is
\* an identifier that holds a prefix further on.
C6_PrefixFilter ==
    pc = "found" =>
        /\ accounts = SelectSeq(data.accountTotals.items, Tracked)
        /\ IdsOf(accounts) \cap {S(llama_x), S(my_deepseek), S(x_qwen), S(deep), S(qwe)} = {}
        /\ IdsOf(data.accountTotals.items) \cap {S(qwen_alpha), S(DeepSeekV3), S(QWEN)}
              \subseteq IdsOf(accounts)

\* DeepSeek-V3 was selected and my-deepseek, next to it, was not.
C6_Witness ==
    /\ pc = "found"
    /\ IdsOf(data.accountTotals.items) = {S(DeepSeekV3), S(my_deepseek)}
    /\ IdsOf(accounts) = {S(DeepSeekV3)}

\* C7: what a successful saveSeenPositions wrote, loadSeenPositions reads
\* back as the same set; a run that loaded it starts with that set and
\* never calls openTrade for an entry_oid of it.
C7_PersistenceRoundTrip ==
    /\ saved.valid =>
          /\ file.kind = "json"
          /\ NewSet(JSONparse(file.text)) = saved.array
    /\ (loaded.ok /\ cycles = "first" /\ pc \in {"fetch", "retryDelay"}) =>
          /\ saved.valid
          /\ seenPositions = saved.array
    /\ \A i \in DOMAIN loaded.array :
          /\ Has(seenPositions, loaded.array[i])
          /\ tradeCount[loaded.array[i]] = 0

\* After a restart the run loaded 42 and "42", met both again in a payload
\* and notified nothing.
C7_Witness ==
    /\ loaded.ok
    /\ Has(loaded.array, Num(42))
    /\ Has(loaded.array, Str("42"))
    /\ CycleDoneOk
    /\ cycleTrades = 0
    /\ \E ij \in CyclePositions : EntryAt(ij).position.entry_oid = Num(42)
    /\ \E ij \in CyclePositions : EntryAt(ij).position.entry_oid = Str("42")

\* A poll cycle is in flight: pollLoop is suspended in pollPositions.
InFlight == pc \in {"fetch", "retryDelay", "writeFile", "openTrade"}

\* C11: after start() at most one poll cycle is in flight: no timer is
\* pending while a cycle is in flight, whether it waits for the fetch, a
\* retry delay, the save or the notifier, and at most one is pending ever.
C11_OneCycleInFlight ==
    /\ Len(timers) <= 1
    /\ InFlight => timers = <<>>
    /\ timers # <<>> => pc = "timer" /\ outcome \in {"ok", "threw"}

\* A later cycle waits out a retry delay, and then a notifier call, with no
\* timer pending.
C11_Witness ==
    /\ cycles = "second"
    /\ pc = "openTrade"
    /\ fetchThrew = NotThrown
    /\ cycleTrades = 2
    /\ timers = <<>>

\* A step in which a pollLoop iteration issues the first fetch of a cycle.
CycleBegins == pc # "fetch" /\ pc' = "fetch" /\ attempt' = 1

\* C12 (as claimed): once stop() was called no poll cycle begins, and the
\* call of stop() itself leaves a cycle in flight as it was.
C12_NoCycleAfterStop ==
    [][/\ stopCalled => ~CycleBegins
       /\ (stopCalled' /\ ~stopCalled) =>
             UNCHANGED <<pc, seenPositions, file, accounts, ai, pi, attempt>>]_vars

\* C13: while the trader runs, a cycle that threw, whatever it threw, is
\* followed by the first fetch of a further cycle.
C13_FailedCycleIsFollowed ==
    (outcome = "threw") ~> (pc = "fetch" /\ attempt = 1 /\ outcome = "none")

\* The notifier threw in a later cycle: the loop waits on the error interval.
C13_Witness ==
    /\ isRunning
    /\ cycles = "later"
    /\ outcome = "threw"
    /\ thrown = NotifierError
    /\ pc = "timer"
    /\ timers = <<ERROR_RETRY_INTERVAL>>

\* C14 (as claimed): no payload that was received makes a cycle fail: a
\* cycle throws only what the network or the notifier threw, never the
\* TypeError of reading a malformed payload, and a cycle whose payload held
\* nothing to process arms the normal interval.
C14_MalformedPayloadNeverFails ==
    (pc = "timer" /\ outcome = "threw") =>
        /\ thrown \in NetworkErrors \cup {NotifierError}
        /\ thrown # TypeError

\* start() is past await this.loadSeenPositions().
Loaded == pc \notin {"constructed", "testConnection", "readFile"}

\* C15: loadSeenPositions never throws: whatever the read or the parse did,
\* start() went on to set isRunning and to the first fetch of the poll loop,
\* and when the read or the parse failed the seen set started empty: all it
\* holds was added, and notified, by this run.
C15_LoadNeverThrows ==
    Loaded =>
        /\ cycles # "none"
        /\ isRunning \/ stopCalled
        /\ pc = "stopped" => stopCalled
        /\ ~loaded.ok =>
              \A i \in DOMAIN seenPositions :
                  \/ tradeCount[seenPositions[i]] = 1
                  \/ pc = "writeFile" /\ i = Len(seenPositions)

\* A restarted run found the file truncated by a failed write: JSON.parse
\* threw, the set is empty and the first fetch is out.
C15_Witness ==
    /\ file = Truncated
    /\ ~loaded.ok
    /\ seenPositions = <<>>
    /\ isRunning
    /\ cycles = "first"
    /\ pc = "fetch"

\* The set that seen_positions.json holds.
Persisted == IF file.kind = "json" THEN NewSet(JSONparse(file.text)) ELSE <<>>

\* C16: an entry_oid whose writeFile rejected stays in the seen set and got
\* its one openTrade call, in the cycle that found it and in no later one;
\* no cycle throws the write error; and once a later writeFile has resolved
\* the file holds that entry_oid too.
C16_FailedSaveSwallowed ==
    /\ \A o \in failedSaves : Has(seenPositions, o) /\ tradeCount[o] = 1
    /\ (lastWrite = "failed" /\ pc = "openTrade") =>
          accounts[ai].positions.entries[pi].position.entry_oid \in failedSaves
    /\ outcome = "threw" => thrown # WriteError
    /\ lastWrite = "ok" =>
          /\ file.kind = "json"
          /\ \A o \in failedSaves : Has(Persisted, o)

\* The write for 42 failed, the write for "42" went through and took 42
\* along; the next cycle met 42 again and notified nothing.
C16_Witness ==
    /\ failedSaves = {Num(42)}
    /\ lastWrite = "ok"
    /\ Has(Persisted, Num(42))
    /\ cycles = "second"
    /\ CycleDoneOk
    /\ cycleTrades = 0
    /\ \E ij \in CyclePositions : EntryAt(ij).position.entry_oid = Num(42)

\* Every entry of set a is an entry of set b, in the same insertion order.
GrewFrom(a, b) == Len(a) <= Len(b) /\ SubSeq(b, 1, Len(a)) = a

\* C17: once loadSeenPositions has built the seen set, no step of the run
\* takes an entry_oid out of it; the only steps that change it are those of
\* processAccounts, which add one entry_oid and go on to save it.
C17_SeenSetGrowsOnly ==
    [][(Loaded /\ pc' # "constructed") =>
          /\ GrewFrom(seenPositions, seenPositions')
          /\ seenPositions' # seenPositions =>
                /\ pc \in {"fetch", "openTrade"}
                /\ pc' = "writeFile"
                /\ Len(seenPositions') = Len(seenPositions) + 1
                /\ ~Has(seenPositions, seenPositions'[Len(seenPositions')])]_vars

\* The run loaded a set, added to it over a failed save and a failed
\* cycle, and was stopped.
C17_Witness ==
    /\ loaded.ok
    /\ loaded.array # <<>>
    /\ Len(seenPositions) > Len(loaded.array)
    /\ failedSaves # {}
    /\ outcome = "threw"
    /\ stopCalled

\* C18: whatever testConnection resolved to, true or false, start() goes on
\* to loadSeenPositions, sets the running flag and begins the poll loop.
C18_ConnectionCheckAdvisory ==
    connected \in {"ok", "failed"} =>
        /\ pc = "readFile" \/ InFlight \/ pc = "timer"
        /\ Loaded =>
              /\ cycles = "first"
              /\ isRunning \/ stopCalled

\* The check failed; the run loaded its file all the same and is notifying
\* in its first cycle.
C18_Witness ==
    /\ connected = "failed"
    /\ loaded.ok
    /\ isRunning
    /\ cycles = "first"
    /\ pc = "openTrade"

\* Position ij comes no later than position (ai, pi) in the order of the
\* loops of processAccounts.
Examined(ij) == ij[1] < ai \/ (ij[1] = ai /\ ij[2] <= pi)

\* The entry_oid of the position in hand.
InHand == accounts[ai].positions.entries[pi].position.entry_oid

\* C19: for a new entry_oid the add comes first, the save is awaited next
\* and openTrade is called after it; no position further on has been added
\* meanwhile; and saveSeenPositions was called once for each entry_oid the
\* cycle added, never for a position it skipped.
C19_AddSaveNotifyInOrder ==
    /\ pc = "writeFile" =>
          /\ Has(seenPositions, InHand)
          /\ tradeCount[InHand] = 0
          /\ cycleSaves = cycleTrades + 1
    /\ pc = "openTrade" =>
          /\ Has(seenPositions, InHand)
          /\ tradeCount[InHand] = 1
          /\ cycleSaves = cycleTrades
          /\ lastWrite \in {"ok", "failed"}
    /\ pc \in {"writeFile", "openTrade"} =>
          \A k \in (Len(cycleStart) + 1)..Len(seenPositions) :
              \E ij \in CyclePositions :
                  Examined(ij) /\ EntryAt(ij).position.entry_oid = seenPositions[k]
    /\ Loaded =>
          /\ GrewFrom(cycleStart, seenPositions)
          /\ Len(seenPositions) = Len(cycleStart) + cycleSaves
          /\ cycleTrades <= cycleSaves

\* The save of the first new entry_oid is awaited while a position further
\* on, new as well, is still out of the seen set.
C19_Witness ==
    /\ pc = "writeFile"
    /\ cycleSaves = 1
    /\ \E ij \in CyclePositions :
          /\ ~Examined(ij)
          /\ ~SkipEntryOid(EntryAt(ij).position.entry_oid)
          /\ ~Has(seenPositions, EntryAt(ij).position.entry_oid)

\* C20: a writeFile that resolved wrote the whole seen set: from then on,
\* until the next entry_oid is added, the file holds exactly the set in
\* memory, in its order, entry_oids of earlier failed saves included.
C20_SaveWritesWholeSet ==
    (lastWrite = "ok" /\ pc # "writeFile") =>
        /\ file = JsonFile(JSONstringify(seenPositions))
        /\ Persisted = seenPositions
        /\ saved = [valid |-> TRUE, array |-> seenPositions]

\* The save for the second entry_oid resolved after the save for the first
\* had failed: the file holds both.
C20_Witness ==
    /\ lastWrite = "ok"
    /\ pc = "openTrade"
    /\ failedSaves # {}
    /\ ~(InHand \in failedSaves)
    /\ Len(Persisted) = 2
    /\ file.kind = "json"

\* C21: a cycle that fails inside fetchPositions, retries exhausted or an
\* error that is not retried, leaves the seen set and the file as they
\* were and calls neither saveSeenPositions nor openTrade.
C21_FetchFailureChangesNothing ==
    /\ [](fetchThrew.attempt > 0 =>
             /\ ~returned
             /\ seenPositions = cycleStart
             /\ cycleSaves = 0
             /\ cycleTrades = 0)
    /\ [][(pc \in {"fetch", "retryDelay"} /\ pc' \in {"retryDelay", "fetch", "timer"}
             /\ ~returned') =>
               UNCHANGED <<seenPositions, file, saved, tradeCount, lastTrade,
                           lastWrite, failedSaves>>]_vars

\* A later cycle of a run that holds a saved set gave up after its third
\* attempt.
C21_Witness ==
    /\ pc = "timer"
    /\ cycles = "second"
    /\ fetchThrew = [attempt |-> 3, delays |-> 2]
    /\ seenPositions # <<>>
    /\ file = JsonFile(JSONstringify(seenPositions))

\* C22 (as claimed): when the cycle that was in flight at stop() completes,
\* no timer is armed and the loop is stopped; while the cycle is in flight
\* the flag ends nothing.
C22_StopObservedBeforeWait ==
    [][(~isRunning /\ InFlight /\ pc' # "constructed") =>
          /\ InFlight' \/ (timers' = <<>> /\ pc' = "stopped")
          /\ pc' # "stopped" \/ ~InFlight']_vars

\* C23 (as claimed): whatever the calls of start() and stop() on one
\* instance, at most one pollLoop awaits pollPositions and at most one
\* timer is pending.
C23_OneLoopPerInstance ==
    /\ Cardinality({k \in 1..MaxStarts : loops[k].at = "pollPositions"}) <= 1
    /\ Len(timers) <= 1

\* C24 (as claimed): an entry_oid whose openTrade call threw is not left in
\* the seen set, so that a later cycle finds it new and calls openTrade
\* for it again.
C24_FailedNotificationRetried ==
    (pc = "timer" /\ outcome = "threw" /\ thrown = NotifierError) =>
        ~Has(seenPositions, InHand)

\* The entry_oid of position ij is one that processAccounts would add.
Addable(ij) ==
    /\ ~EntryAt(ij).position.isNull
    /\ ~SkipEntryOid(EntryAt(ij).position.entry_oid)

C26_PersistedSetGrowsOnly ==
    [][(file.kind = "json" /\ file'.kind = "json") =>
          \A i \in DOMAIN file.text :
              \E j \in DOMAIN file'.text : file'.text[j] = file.text[i]]_vars

====
